---- MODULE Spec2Model ----
(***************************************************************************)
(* flake8/utils.py: the files-to-codes mapping tokenizer and parser        *)
(* (parse_files_to_codes_mapping) and the unified-diff range parser        *)
(* (parse_unified_diff), and the cached reader of standard input           *)
(* (stdin_get_value) with its two callers.                                 *)
(*                                                                         *)
(* A Python str is a sequence of one-character strings; cursors and match  *)
(* ends are Python's 0-based offsets, so the character at offset j of s    *)
(* is s[j + 1].  None is the empty tuple and a set optional x is <<x>>.    *)
(***************************************************************************)
EXTENDS Integers, Sequences, FiniteSets, TLC

VARIABLES
    pc,             \* "idle" | "tokenize" | "parse" | "diff" | "done"
    stdin,          \* sys.stdin.buffer: the bytes not read yet
    reads,          \* number of sys.stdin.buffer.read() calls made
    cache,          \* lru_cache of stdin_get_value: None or the value held
    call,           \* the call in progress (or the last one): function, argument
    outcome,        \* what the last finished call gave its caller
    calls,          \* number of calls made so far
    log,            \* the finished calls in order: function, argument, outcome
    value,          \* parse_files_to_codes_mapping: the string being parsed
    i,              \* _tokenize_files_to_codes_mapping: the cursor
    tokens,         \* _tokenize_files_to_codes_mapping: the token list
    spans,          \* (match.start(), match.end()) of every match taken
    k,              \* index of the token the parser's for loop is at
    seen_sep,       \* State.seen_sep
    seen_colon,     \* State.seen_colon
    filenames,      \* State.filenames
    codes,          \* State.codes
    ret,            \* parse_files_to_codes_mapping: the list returned
    diff,           \* parse_unified_diff: the diff text
    ln,             \* index of the line the diff parser's for loop is at
    number_of_rows, \* parse_unified_diff: rows left in the hunk body
    current_path,   \* parse_unified_diff: path of the last +++ line
    parsed_paths    \* parse_unified_diff: path -> set of line numbers

mapvars  == <<value, i, tokens, spans, k, seen_sep, seen_colon, filenames, codes, ret>>
diffvars == <<diff, ln, number_of_rows, current_path, parsed_paths>>
iovars   == <<stdin, reads, cache>>
vars     == <<pc, call, outcome, calls, log, mapvars, diffvars, iovars>>

-----------------------------------------------------------------------------
(* Bounds of the model.                                                    *)

MaxLen == 5
MaxItems == 5
MaxLines == 4
MaxCalls == 3
MaxBytes == 3
MaxWords == 8

-----------------------------------------------------------------------------
(* Characters and strings.                                                 *)

Upper == {"A", "B", "C", "D", "E", "F", "G", "H", "I", "J", "K", "L", "M",
          "N", "O", "P", "Q", "R", "S", "T", "U", "V", "W", "X", "Y", "Z"}
Digit == {"0", "1", "2", "3", "4", "5", "6", "7", "8", "9"}
\* What \s and str.strip() take as whitespace, among the characters used.
Whitespace == {" ", "\t", "\n", "\r", "\f"}

None == <<>>
Some(x) == <<x>>

SetMin(S) == CHOOSE x \in S : \A y \in S : x <= y
SetMax(S) == CHOOSE x \in S : \A y \in S : y <= x

\* s[a:b] of Python, 0-based and end-exclusive.
Slice(s, a, b) == SubSeq(s, a + 1, b)

\* The string as it is, nothing stripped
StripNothing(s) == s

\* str.strip()
Strip(s) ==
    LET keep == {j \in 1..Len(s) : s[j] \notin Whitespace}
    IN  IF keep = {} THEN <<>> ELSE SubSeq(s, SetMin(keep), SetMax(keep))

\* End of the longest run of characters of C that starts at offset j.
RunEnd(s, j, C) ==
    SetMin({e \in j..Len(s) : e = Len(s) \/ s[e + 1] \notin C})

\* End of the longest run of characters outside C that starts at offset j.
RunEndNot(s, j, C) ==
    SetMin({e \in j..Len(s) : e = Len(s) \/ s[e + 1] \in C})

-----------------------------------------------------------------------------
(* _FILE_LIST_TOKEN_TYPES: each pattern matched at offset j of s gives the  *)
(* end of the match, or NoMatch.                                           *)

NoMatch == -1

\* The lookahead, were a colon to end a code as well: (?=$|\s|,|:)
CodeLookaheadColon(s, e) ==
    e = Len(s) \/ s[e + 1] \in Whitespace \/ s[e + 1] \in {",", ":"}

\* The code pattern, were it to have no lookahead: [A-Z]+[0-9]*
CodeLookaheadNone(s, e) == e <= Len(s)

\* (?=$|\s|,) at offset e
CodeLookahead(s, e) ==
    e = Len(s) \/ s[e + 1] \in Whitespace \/ s[e + 1] = ","

\* [A-Z]+[0-9]*(?=$|\s|,) : letters up to m, digits up to e; the regex
\* engine tries the longest letter run first, then the longest digit run.
MatchCode(s, j) ==
    LET cands == {c \in (j + 1..Len(s)) \X (j + 1..Len(s)) :
                    /\ c[1] <= c[2]
                    /\ \A x \in j..c[1] - 1 : s[x + 1] \in Upper
                    /\ \A x \in c[1]..c[2] - 1 : s[x + 1] \in Digit
                    /\ CodeLookahead(s, c[2])}
    IN  IF cands = {} THEN NoMatch
        ELSE LET m == SetMax({c[1] : c \in cands})
             IN  SetMax({c[2] : c \in {d \in cands : d[1] = m}})

\* The file pattern, were it to leave out the digits: [^\s:,0-9]+
MatchFileNoDigit(s, j) ==
    LET e == RunEndNot(s, j, Whitespace \cup {":", ","} \cup Digit)
    IN  IF e > j THEN e ELSE NoMatch

\* The file pattern, were it to match the empty string too: [^\s:,]*
MatchFileStar(s, j) == RunEndNot(s, j, Whitespace \cup {":", ","})

\* [^\s:,]+
MatchFile(s, j) ==
    LET e == RunEndNot(s, j, Whitespace \cup {":", ","})
    IN  IF e > j THEN e ELSE NoMatch

\* \s*<ch>\s* for the colon and the comma
MatchSeparator(s, j, ch) ==
    LET a == RunEnd(s, j, Whitespace)
    IN  IF a < Len(s) /\ s[a + 1] = ch THEN RunEnd(s, a + 1, Whitespace)
        ELSE NoMatch

\* \s+
MatchWs(s, j) ==
    LET e == RunEnd(s, j, Whitespace)
    IN  IF e > j THEN e ELSE NoMatch

\* The patterns, were the file pattern tried before the code pattern
FileFirstTokenTypes == <<"file", "code", "colon", "comma", "ws">>

FILE_LIST_TOKEN_TYPES == <<"code", "file", "colon", "comma", "ws">>

TokenMatch(tp, s, j) ==
    CASE tp = "code"  -> MatchCode(s, j)
      [] tp = "file"  -> MatchFile(s, j)
      [] tp = "colon" -> MatchSeparator(s, j, ":")
      [] tp = "comma" -> MatchSeparator(s, j, ",")
      [] tp = "ws"    -> MatchWs(s, j)

\* The for loop over _FILE_LIST_TOKEN_TYPES: the first pattern that matches.
FirstMatch(s, j) ==
    LET hits == {n \in DOMAIN FILE_LIST_TOKEN_TYPES :
                    TokenMatch(FILE_LIST_TOKEN_TYPES[n], s, j) # NoMatch}
    IN  IF hits = {} THEN [tp |-> "none", end |-> NoMatch]
        ELSE LET tp == FILE_LIST_TOKEN_TYPES[SetMin(hits)]
             IN  [tp |-> tp, end |-> TokenMatch(tp, s, j)]

Token(tp, src) == [tp |-> tp, src |-> src]

-----------------------------------------------------------------------------
(* Calls and their outcomes.                                               *)

Returned(v) == [kind |-> "return", val |-> v]
Raised(e)   == [kind |-> e, val |-> <<>>]

\* The call ends: its caller gets outcome o.
Finish(o) ==
    /\ pc' = "done"
    /\ outcome' = o
    /\ log' = Append(log, [fn |-> call.fn, arg |-> call.arg, out |-> o])

-----------------------------------------------------------------------------
(* parse_files_to_codes_mapping                                            *)

\* class State, as a value
ParserState == [seen_sep |-> seen_sep, seen_colon |-> seen_colon,
                filenames |-> filenames, codes |-> codes, ret |-> ret]

\* The attributes of a State that outlives the call: those the last call
\* left
StateKept(r) == [ParserState EXCEPT !.ret = r]

\* class State: ... (the attributes a call starts with)
StateInit(r) == [seen_sep |-> TRUE, seen_colon |-> FALSE,
                 filenames |-> <<>>, codes |-> <<>>, ret |-> r]

\* _reset(), were it to leave State.codes as it is
ResetKeepCodes(st) ==
    [seen_sep |-> TRUE, seen_colon |-> FALSE, filenames |-> <<>>, codes |-> st.codes,
     ret |-> IF st.codes # <<>>
             THEN st.ret \o [n \in 1..Len(st.filenames) |-> <<st.filenames[n], st.codes>>]
             ELSE st.ret]

\* _reset(), were it to leave State.seen_colon as it is
ResetKeepColon(st) ==
    [seen_sep |-> TRUE, seen_colon |-> st.seen_colon, filenames |-> <<>>, codes |-> <<>>,
     ret |-> IF st.codes # <<>>
             THEN st.ret \o [n \in 1..Len(st.filenames) |-> <<st.filenames[n], st.codes>>]
             ELSE st.ret]

\* _reset(), were it to append the pairs whatever State.codes holds
ResetAlways(st) ==
    [seen_sep |-> TRUE, seen_colon |-> FALSE, filenames |-> <<>>, codes |-> <<>>,
     ret |-> st.ret \o [n \in 1..Len(st.filenames) |-> <<st.filenames[n], st.codes>>]]

\* _reset()
Reset(st) ==
    [seen_sep |-> TRUE, seen_colon |-> FALSE, filenames |-> <<>>, codes |-> <<>>,
     ret |-> IF st.codes # <<>>
             THEN st.ret \o [n \in 1..Len(st.filenames) |-> <<st.filenames[n], st.codes>>]
             ELSE st.ret]

\* The body of the loop, were a code taken as a filename while the parser
\* looks for filenames: token.tp in {_FILE, _CODE}
OnTokenCodeAsFile(st, token) ==
    LET go(s) == [raised |-> FALSE, st |-> s]
        fail == [raised |-> TRUE, st |-> st]
    IN  IF token.tp \in {"comma", "ws"}
        THEN go([st EXCEPT !.seen_sep = TRUE])
        ELSE IF ~st.seen_colon
        THEN IF token.tp = "colon"
             THEN go([st EXCEPT !.seen_colon = TRUE, !.seen_sep = TRUE])
             ELSE IF st.seen_sep /\ token.tp \in {"file", "code"}
             THEN go([st EXCEPT !.filenames = Append(@, token.src), !.seen_sep = FALSE])
             ELSE fail
        ELSE IF token.tp = "eof"
             THEN go(Reset(st))
             ELSE IF st.seen_sep /\ token.tp = "code"
             THEN go([st EXCEPT !.codes = Append(@, token.src), !.seen_sep = FALSE])
             ELSE IF st.seen_sep /\ token.tp = "file"
             THEN go([Reset(st) EXCEPT !.filenames = Append(@, token.src),
                                       !.seen_sep = FALSE])
             ELSE fail

\* The body of the for loop over the tokens: the state after the token, or
\* raised when it ends in raise _unexpected_token().
OnToken(st, token) ==
    LET go(s) == [raised |-> FALSE, st |-> s]
        fail == [raised |-> TRUE, st |-> st]
    IN  IF token.tp \in {"comma", "ws"}
        THEN go([st EXCEPT !.seen_sep = TRUE])
        ELSE IF ~st.seen_colon
        THEN IF token.tp = "colon"
             THEN go([st EXCEPT !.seen_colon = TRUE, !.seen_sep = TRUE])
             ELSE IF st.seen_sep /\ token.tp = "file"
             THEN go([st EXCEPT !.filenames = Append(@, token.src), !.seen_sep = FALSE])
             ELSE fail
        ELSE IF token.tp = "eof"
             THEN go(Reset(st))
             ELSE IF st.seen_sep /\ token.tp = "code"
             THEN go([st EXCEPT !.codes = Append(@, token.src), !.seen_sep = FALSE])
             ELSE IF st.seen_sep /\ token.tp = "file"
             THEN go([Reset(st) EXCEPT !.filenames = Append(@, token.src),
                                       !.seen_sep = FALSE])
             ELSE fail

SetParserState(st) ==
    /\ seen_sep' = st.seen_sep
    /\ seen_colon' = st.seen_colon
    /\ filenames' = st.filenames
    /\ codes' = st.codes
    /\ ret' = st.ret

\* The call, up to the tokenizer's loop: ret = [], the early return on a
\* blank value, class State, tokens = [], i = 0.
CallMapping(inputs, limit) ==
    /\ pc \in {"idle", "done"}
    /\ calls < limit
    /\ \E inp \in inputs :
        /\ call' = [fn |-> "mapping", arg |-> inp.text, decl |-> inp.decl]
        /\ value' = inp.text
        /\ calls' = calls + 1
        /\ IF Strip(inp.text) = <<>>
           THEN /\ ret' = <<>>
                /\ pc' = "done"
                /\ outcome' = Returned(<<>>)
                /\ log' = Append(log, [fn |-> "mapping", arg |-> inp.text,
                                        out |-> Returned(<<>>)])
                /\ UNCHANGED <<i, tokens, spans, k, seen_sep, seen_colon,
                               filenames, codes>>
           ELSE /\ SetParserState(StateInit(<<>>))
                /\ tokens' = <<>>
                /\ spans' = <<>>
                /\ i' = 0
                /\ pc' = "tokenize"
                /\ UNCHANGED <<k, outcome, log>>
    /\ UNCHANGED diffvars
    /\ UNCHANGED iovars

\* One iteration of the tokenizer's while loop.
TokenizeStep ==
    /\ pc = "tokenize"
    /\ i < Len(value)
    /\ LET m == FirstMatch(value, i)
       IN  IF m.end = NoMatch
           THEN /\ Finish(Raised("AssertionError"))
                /\ UNCHANGED <<i, tokens, spans>>
           ELSE /\ tokens' = Append(tokens, Token(m.tp, Strip(Slice(value, i, m.end))))
                /\ spans' = Append(spans, <<i, m.end>>)
                /\ i' = m.end
                /\ UNCHANGED <<pc, outcome, log>>
    /\ UNCHANGED <<call, calls, value, k, seen_sep, seen_colon, filenames, codes, ret>>
    /\ UNCHANGED diffvars
    /\ UNCHANGED iovars

\* The while loop ends: the eof token is appended and the list returned to
\* the parser's for loop.
TokenizeEnd ==
    /\ pc = "tokenize"
    /\ i >= Len(value)
    /\ tokens' = Append(tokens, Token("eof", <<>>))
    /\ k' = 1
    /\ pc' = "parse"
    /\ UNCHANGED <<call, outcome, calls, log, value, i, spans, seen_sep, seen_colon,
                   filenames, codes, ret>>
    /\ UNCHANGED diffvars
    /\ UNCHANGED iovars

\* One iteration of the parser's for loop.
ParseStep ==
    /\ pc = "parse"
    /\ k <= Len(tokens)
    /\ LET r == OnToken(ParserState, tokens[k])
       IN  IF r.raised
           THEN /\ Finish(Raised("ExecutionError"))
                /\ UNCHANGED <<k, seen_sep, seen_colon, filenames, codes, ret>>
           ELSE /\ SetParserState(r.st)
                /\ k' = k + 1
                /\ UNCHANGED <<pc, outcome, log>>
    /\ UNCHANGED <<call, calls, value, i, tokens, spans>>
    /\ UNCHANGED diffvars
    /\ UNCHANGED iovars

\* return ret
ParseReturn ==
    /\ pc = "parse"
    /\ k > Len(tokens)
    /\ Finish(Returned(ret))
    /\ UNCHANGED <<call, calls, mapvars>>
    /\ UNCHANGED diffvars
    /\ UNCHANGED iovars

-----------------------------------------------------------------------------
(* parse_unified_diff                                                      *)

\* s[:n] and s[n:] of Python
Take(s, n) == SubSeq(s, 1, IF n < Len(s) THEN n ELSE Len(s))
Drop(s, n) == SubSeq(s, n + 1, Len(s))

\* s[j:].startswith(lit)
StartsWithAt(s, j, lit) ==
    j + Len(lit) <= Len(s) /\ SubSeq(s, j + 1, j + Len(lit)) = lit

\* The line boundaries of str.splitlines(), among the characters used.
LineBreaks == {"\n", "\r", "\f"}

\* The lines of s from offset p - 1 on.
RECURSIVE SplitFrom(_, _)
SplitFrom(s, p) ==
    IF p > Len(s) THEN <<>>
    ELSE LET e == SetMin({x \in p..Len(s) + 1 : x = Len(s) + 1 \/ s[x] \in LineBreaks})
             nxt == IF e < Len(s) /\ s[e] = "\r" /\ s[e + 1] = "\n" THEN e + 2 ELSE e + 1
         IN  <<SubSeq(s, p, e - 1)>> \o SplitFrom(s, nxt)

\* str.splitlines()
SplitLines(s) == SplitFrom(s, 1)

DigitChars == <<"0", "1", "2", "3", "4", "5", "6", "7", "8", "9">>

\* int(group) of a run of digits
RECURSIVE ToInt(_)
ToInt(ds) ==
    IF ds = <<>> THEN 0
    ELSE 10 * ToInt(SubSeq(ds, 1, Len(ds) - 1))
            + ((CHOOSE n \in 1..10 : DigitChars[n] = ds[Len(ds)]) - 1)

\* (?:,(\d+))? at offset j: the end of the group and what it captured
OptionalCount(s, j) ==
    IF j < Len(s) /\ s[j + 1] = "," /\ RunEnd(s, j + 1, Digit) > j + 1
    THEN [end |-> RunEnd(s, j + 1, Digit),
          group |-> Some(Slice(s, j + 1, RunEnd(s, j + 1, Digit)))]
    ELSE [end |-> j, group |-> None]

\* DIFF_HUNK_REGEXP.match(line): ^@@ -\d+(?:,\d+)? \+(\d+)(?:,(\d+))? @@.*$
\* Every piece is followed by a character it cannot itself match, so the
\* longest match of each piece is the only one the engine can finish with.
\* The dot matches no \n, and $ matches at the end of the line or just
\* before a \n that ends it: the only \n allowed after " @@" is a last one.
HunkMatch(line) ==
    LET nomatch == [ok |-> FALSE, groups |-> <<>>]
    IN  IF ~StartsWithAt(line, 0, <<"@", "@", " ", "-">>) THEN nomatch
        ELSE LET oldEnd == RunEnd(line, 4, Digit)
             IN  IF oldEnd = 4 THEN nomatch
        ELSE LET oldCnt == OptionalCount(line, oldEnd).end
             IN  IF ~StartsWithAt(line, oldCnt, <<" ", "+">>) THEN nomatch
        ELSE LET newEnd == RunEnd(line, oldCnt + 2, Digit)
             IN  IF newEnd = oldCnt + 2 THEN nomatch
        ELSE LET newCnt == OptionalCount(line, newEnd)
             IN  IF ~StartsWithAt(line, newCnt.end, <<" ", "@", "@">>) THEN nomatch
        ELSE IF \E x \in newCnt.end + 4..Len(line) - 1 : line[x] = "\n" THEN nomatch
        ELSE [ok |-> TRUE,
              groups |-> <<Some(Slice(line, oldCnt + 2, newEnd)), newCnt.group>>]

\* 1 if not group else int(group)
GroupInt(group) ==
    IF group = None \/ group = Some(<<>>) THEN 1 ELSE ToInt(group[1])

\* if number_of_rows: (None and 0 are false)
Truthy(n) == n # None /\ n # Some(0)

\* The path, were the b/ of git left on it
PathOfKeepPrefix(line) ==
    LET rest == Drop(line, 4)
    IN  Take(rest, RunEndNot(rest, 0, {"\t"}))

\* line[4:].split("\t", 1)[0], less a leading b/
PathOf(line) ==
    LET rest == Drop(line, 4)
        path == Take(rest, RunEndNot(rest, 0, {"\t"}))
    IN  IF Take(path, 2) = <<"b", "/">> THEN Drop(path, 2) ELSE path

\* parsed_paths[key] = S: the set replaced, not added to
MapReplace(m, key, S) ==
    [p \in DOMAIN m \cup {key} |-> IF p = key THEN S ELSE m[p]]

\* parsed_paths[key].update(S), parsed_paths a defaultdict(set)
MapUpdate(m, key, S) ==
    [p \in DOMAIN m \cup {key} |->
        IF p = key THEN (IF key \in DOMAIN m THEN m[key] ELSE {}) \cup S ELSE m[p]]

\* The range, were its end taken in: range(a, b + 1)
RangeInclusive(a, b) == a..b

\* range(a, b)
Range(a, b) == a..b - 1

\* The locals of parse_unified_diff, as a value
DiffState == [number_of_rows |-> number_of_rows, current_path |-> current_path,
              parsed_paths |-> parsed_paths]

\* number_of_rows = None; current_path = None; parsed_paths = defaultdict(set)
DiffInit == [number_of_rows |-> None, current_path |-> None, parsed_paths |-> <<>>]

\* The hunk body branch, were every line counted as a row
OnBodyLineCountAll(st, line) ==
    [st EXCEPT !.number_of_rows = Some(@[1] - 1)]

\* The hunk body branch: a row is counted unless the line starts with "-".
OnBodyLine(st, line) ==
    IF line = <<>> \/ line[1] # "-"
    THEN [st EXCEPT !.number_of_rows = Some(@[1] - 1)]
    ELSE st

\* The +++ branch.
OnPathLine(st, line) == [st EXCEPT !.current_path = Some(PathOf(line))]

\* The hunk header branch, the assert passed.
OnHunkLine(st, groups) ==
    LET row == GroupInt(groups[1])
        n   == GroupInt(groups[2])
    IN  [st EXCEPT !.number_of_rows = Some(n),
                   !.parsed_paths = MapUpdate(@, st.current_path[1], Range(row, row + n))]

\* The body of the for loop, were a hunk header met before any +++ line
\* passed over instead of asserted against
OnLineNoAssert(st, line) ==
    LET go(s) == [raised |-> FALSE, st |-> s]
    IN  IF Truthy(st.number_of_rows)
        THEN go(OnBodyLine(st, line))
        ELSE IF Take(line, 3) = <<"+", "+", "+">>
        THEN go(OnPathLine(st, line))
        ELSE LET hunk_match == HunkMatch(line)
             IN  IF ~hunk_match.ok \/ st.current_path = None THEN go(st)
                 ELSE go(OnHunkLine(st, hunk_match.groups))

\* The body of the for loop over the lines: the locals after the line, or
\* raised when the assert fails.
OnLine(st, line) ==
    LET go(s) == [raised |-> FALSE, st |-> s]
    IN  IF Truthy(st.number_of_rows)
        THEN go(OnBodyLine(st, line))
        ELSE IF Take(line, 3) = <<"+", "+", "+">>
        THEN go(OnPathLine(st, line))
        ELSE LET hunk_match == HunkMatch(line)
             IN  IF ~hunk_match.ok THEN go(st)
                 ELSE IF st.current_path = None
                 THEN [raised |-> TRUE,
                       st |-> [st EXCEPT !.number_of_rows = Some(GroupInt(hunk_match.groups[2]))]]
                 ELSE go(OnHunkLine(st, hunk_match.groups))

SetDiffState(st) ==
    /\ number_of_rows' = st.number_of_rows
    /\ current_path' = st.current_path
    /\ parsed_paths' = st.parsed_paths

\* The call with an explicit diff, up to the loop over diff.splitlines().
CallDiff(inputs, limit) ==
    /\ pc \in {"idle", "done"}
    /\ calls < limit
    /\ \E inp \in inputs :
        /\ call' = [fn |-> "diff", arg |-> inp.text, decl |-> inp.decl]
        /\ diff' = inp.text
    /\ calls' = calls + 1
    /\ SetDiffState(DiffInit)
    /\ ln' = 1
    /\ pc' = "diff"
    /\ UNCHANGED <<outcome, log>>
    /\ UNCHANGED mapvars
    /\ UNCHANGED iovars

\* One iteration of the loop over the lines.
DiffStep ==
    /\ pc = "diff"
    /\ ln <= Len(SplitLines(diff))
    /\ LET r == OnLine(DiffState, SplitLines(diff)[ln])
       IN  /\ SetDiffState(r.st)
           /\ IF r.raised
              THEN Finish(Raised("AssertionError")) /\ UNCHANGED ln
              ELSE ln' = ln + 1 /\ UNCHANGED <<pc, outcome, log>>
    /\ UNCHANGED <<call, calls, diff>>
    /\ UNCHANGED mapvars
    /\ UNCHANGED iovars

\* return parsed_paths
DiffReturn ==
    /\ pc = "diff"
    /\ ln > Len(SplitLines(diff))
    /\ Finish(Returned(parsed_paths))
    /\ UNCHANGED <<call, calls, diffvars>>
    /\ UNCHANGED mapvars
    /\ UNCHANGED iovars

-----------------------------------------------------------------------------
(* stdin_get_value, stdin_get_lines and parse_unified_diff()               *)

\* A byte that no UTF-8 text holds (0xFF).  Every other byte used is ASCII
\* and stands for its character; none of them makes a byte order mark or a
\* coding cookie, so tokenize.detect_encoding gives "utf-8" or, at a
\* BadByte in the first two lines, raises SyntaxError.
BadByte == "0xFF"

\* bytes.decode("utf-8")
DecodeUtf8(bytes) ==
    IF \E x \in 1..Len(bytes) : bytes[x] = BadByte
    THEN [ok |-> FALSE, text |-> <<>>]
    ELSE [ok |-> TRUE, text |-> bytes]

\* The universal newlines of io.TextIOWrapper.read(): \r\n and \r are read
\* as \n.
RECURSIVE TranslateNewlines(_)
TranslateNewlines(text) ==
    IF text = <<>> THEN <<>>
    ELSE IF text[1] = "\r"
    THEN <<"\n">> \o TranslateNewlines(IF Len(text) > 1 /\ text[2] = "\n"
                                        THEN Drop(text, 2) ELSE Drop(text, 1))
    ELSE <<text[1]>> \o TranslateNewlines(Drop(text, 1))

\* The body of stdin_get_value after the read: the text of the try block,
\* or when that raised, of stdin_value.decode("utf-8"), which raises
\* UnicodeDecodeError in its turn (ok is FALSE).
StdinDecode(bytes) ==
    LET wrapped == DecodeUtf8(bytes)
    IN  IF wrapped.ok
        THEN [ok |-> TRUE, text |-> TranslateNewlines(wrapped.text)]
        ELSE DecodeUtf8(bytes)

\* A call of stdin_get_value through functools.lru_cache(maxsize=1): the
\* value held, or the function run on all that is left of the stream; a
\* value returned is kept, an exception is not.
StdinGetValue ==
    IF cache # None
    THEN [raised |-> FALSE, text |-> cache[1],
          stdin |-> stdin, reads |-> reads, cache |-> cache]
    ELSE LET r == StdinDecode(stdin)
         IN  [raised |-> ~r.ok, text |-> r.text,
              stdin |-> <<>>, reads |-> reads + 1,
              cache |-> IF r.ok THEN Some(r.text) ELSE None]

SetIo(r) ==
    /\ stdin' = r.stdin
    /\ reads' = r.reads
    /\ cache' = r.cache

\* list(io.StringIO(text)): the lines with their \n kept
RECURSIVE StringIOLines(_)
StringIOLines(text) ==
    IF text = <<>> THEN <<>>
    ELSE LET e == SetMin({x \in 1..Len(text) : x = Len(text) \/ text[x] = "\n"})
         IN  <<SubSeq(text, 1, e)>> \o StringIOLines(Drop(text, e))

\* A caller's call of stdin_get_value().
CallStdinGetValue(limit) ==
    /\ pc \in {"idle", "done"}
    /\ calls < limit
    /\ LET r == StdinGetValue
           o == IF r.raised THEN Raised("UnicodeDecodeError") ELSE Returned(r.text)
       IN  /\ SetIo(r)
           /\ outcome' = o
           /\ log' = Append(log, [fn |-> "stdin_get_value", arg |-> <<>>, out |-> o])
    /\ call' = [fn |-> "stdin_get_value", arg |-> <<>>, decl |-> <<>>]
    /\ calls' = calls + 1
    /\ pc' = "done"
    /\ UNCHANGED <<mapvars, diffvars>>

\* A caller's call of stdin_get_lines().
CallStdinGetLines(limit) ==
    /\ pc \in {"idle", "done"}
    /\ calls < limit
    /\ LET r == StdinGetValue
           o == IF r.raised THEN Raised("UnicodeDecodeError")
                ELSE Returned(StringIOLines(r.text))
       IN  /\ SetIo(r)
           /\ outcome' = o
           /\ log' = Append(log, [fn |-> "stdin_get_lines", arg |-> <<>>, out |-> o])
    /\ call' = [fn |-> "stdin_get_lines", arg |-> <<>>, decl |-> <<>>]
    /\ calls' = calls + 1
    /\ pc' = "done"
    /\ UNCHANGED <<mapvars, diffvars>>

\* The call parse_unified_diff() with no argument, up to the loop over the
\* lines: diff is what stdin_get_value() gives, and is the call's argument
\* from there on.
CallDiffStdin(limit) ==
    /\ pc \in {"idle", "done"}
    /\ calls < limit
    /\ calls' = calls + 1
    /\ LET r == StdinGetValue
       IN  /\ SetIo(r)
           /\ IF r.raised
              THEN /\ call' = [fn |-> "stdin_diff", arg |-> <<>>, decl |-> <<>>]
                   /\ pc' = "done"
                   /\ outcome' = Raised("UnicodeDecodeError")
                   /\ log' = Append(log, [fn |-> "stdin_diff", arg |-> <<>>,
                                           out |-> Raised("UnicodeDecodeError")])
                   /\ UNCHANGED diffvars
              ELSE /\ call' = [fn |-> "stdin_diff", arg |-> r.text, decl |-> <<>>]
                   /\ diff' = r.text
                   /\ SetDiffState(DiffInit)
                   /\ ln' = 1
                   /\ pc' = "diff"
                   /\ UNCHANGED <<outcome, log>>
    /\ UNCHANGED mapvars

-----------------------------------------------------------------------------
(* Inputs of the diff parser.                                              *)

\* n in decimal
RECURSIVE ToDigits(_)
ToDigits(n) ==
    IF n < 10 THEN <<DigitChars[n + 1]>>
    ELSE ToDigits(n \div 10) \o <<DigitChars[(n % 10) + 1]>>

\* A declared line of a diff: a +++ line of a path (git puts b/ before it, a
\* tool may put a tab and more after it), a hunk header
\* @@ -a[,b] +s[,n] @@tail, or any other text.
PathLine(name, git, tab) ==
    [k |-> "path", text |-> name, git |-> git, tab |-> tab,
     a |-> 0, b |-> None, s |-> 0, n |-> None]
HunkLine(a, b, s, n, tail) ==
    [k |-> "hunk", text |-> tail, git |-> FALSE, tab |-> FALSE,
     a |-> a, b |-> b, s |-> s, n |-> n]
TextLine(text) ==
    [k |-> "text", text |-> text, git |-> FALSE, tab |-> FALSE,
     a |-> 0, b |-> None, s |-> 0, n |-> None]

RenderCount(c) == IF c = None THEN <<>> ELSE <<",">> \o ToDigits(c[1])

RenderLine(d) ==
    CASE d.k = "path" ->
            <<"+", "+", "+", " ">> \o (IF d.git THEN <<"b", "/">> ELSE <<>>)
                \o d.text \o (IF d.tab THEN <<"\t", "m">> ELSE <<>>)
      [] d.k = "hunk" ->
            <<"@", "@", " ", "-">> \o ToDigits(d.a) \o RenderCount(d.b)
                \o <<" ", "+">> \o ToDigits(d.s) \o RenderCount(d.n)
                \o <<" ", "@", "@">> \o d.text
      [] d.k = "text" -> d.text

DiffLineDecls ==
    { PathLine(<<"f", "o", "o", ".", "p", "y">>, TRUE, FALSE),
      PathLine(<<"b", "/", "g">>, TRUE, TRUE),
      PathLine(<<"g">>, FALSE, FALSE),
      HunkLine(1, Some(3), 10, Some(2), <<>>),
      HunkLine(1, None, 2, None, <<" ", "x">>),
      HunkLine(4, Some(0), 3, Some(0), <<>>),
      TextLine(<<"-", "x">>),
      TextLine(<<"+", "x">>),
      TextLine(<<>>),
      TextLine(<<"@", "@", " ", "-", "1", " ", "+", "2", " ", "@">>) }

RECURSIVE RenderDiffFrom(_, _)
RenderDiffFrom(ds, n) ==
    IF n > Len(ds) THEN <<>>
    ELSE RenderLine(ds[n]) \o <<"\n">> \o RenderDiffFrom(ds, n + 1)

\* The diff text of declared lines, each ended by a newline.
RenderDiff(ds) == RenderDiffFrom(ds, 1)

DiffInputs ==
    {[text |-> RenderDiff(ds), decl |-> ds] :
        ds \in UNION {[1..n -> DiffLineDecls] : n \in 0..MaxLines}}

-----------------------------------------------------------------------------
(* Inputs of the mapping parser.                                           *)

MapAlphabet == {"E", "1", "a", ":", ",", " "}

StringsOver(A, n) == UNION {[1..m -> A] : m \in 0..n}

\* Any string of at most MaxLen characters.
MapRawInputs == {[text |-> s, decl |-> <<>>] : s \in StringsOver(MapAlphabet, MaxLen)}

\* A declared mapping: the items in the order they are written, each a
\* filename or a code, filenames and codes alternating in runs (one group is
\* a run of filenames and the run of codes after it), and the text put
\* between two items of a list (sep), between a group's filenames and its
\* codes (colon) and between two groups (gsep).
FileNames == {<<"a">>, <<"E", "1">>}
CodeNames == {<<"E">>, <<"E", "1">>}
ListSeps  == {<<",">>, <<" ">>}
ColonSeps == {<<":">>, <<" ", ":", " ">>}
GroupSeps == {<<" ">>, <<",">>}

DeclItems == {[role |-> "file", name |-> n] : n \in FileNames}
                \cup {[role |-> "code", name |-> n] : n \in CodeNames}

\* filenames, a colon, codes; then again
WellFormedItems(items) ==
    /\ Len(items) >= 2
    /\ items[1].role = "file"
    /\ items[Len(items)].role = "code"

MapDecls ==
    {[items |-> its, sep |-> s, colon |-> c, gsep |-> g] :
        its \in {x \in UNION {[1..n -> DeclItems] : n \in 2..MaxItems} : WellFormedItems(x)},
        s \in ListSeps, c \in ColonSeps, g \in GroupSeps}

\* What is written between item n and item n + 1.
Between(d, n) ==
    LET a == d.items[n].role
        b == d.items[n + 1].role
    IN  IF a = b THEN d.sep ELSE IF a = "file" THEN d.colon ELSE d.gsep

RECURSIVE RenderFrom(_, _)
RenderFrom(d, n) ==
    IF n = Len(d.items) THEN d.items[n].name
    ELSE d.items[n].name \o Between(d, n) \o RenderFrom(d, n + 1)

\* The mapping string of a declaration.
RenderMapping(d) == RenderFrom(d, 1)

MapDeclInputs == {[text |-> RenderMapping(d), decl |-> d] : d \in MapDecls}

\* The process at its start, bytes waiting on standard input.
InitWith(bytes) ==
    /\ stdin = bytes
    /\ reads = 0
    /\ cache = None
    /\ pc = "idle"
    /\ call = [fn |-> "none", arg |-> <<>>, decl |-> <<>>]
    /\ outcome = [kind |-> "none", val |-> <<>>]
    /\ calls = 0
    /\ log = <<>>
    /\ value = <<>>
    /\ i = 0
    /\ tokens = <<>>
    /\ spans = <<>>
    /\ k = 1
    /\ seen_sep = TRUE
    /\ seen_colon = FALSE
    /\ filenames = <<>>
    /\ codes = <<>>
    /\ ret = <<>>
    /\ diff = <<>>
    /\ ln = 1
    /\ number_of_rows = None
    /\ current_path = None
    /\ parsed_paths = <<>>

\* Nothing on standard input.
Init == InitWith(<<>>)

MapSteps == TokenizeStep \/ TokenizeEnd \/ ParseStep \/ ParseReturn

\* One call of parse_files_to_codes_mapping on any short string.
NextMap == CallMapping(MapRawInputs, 1) \/ MapSteps
SpecMap == Init /\ [][NextMap]_vars

\* One call of parse_unified_diff on a diff of declared lines.
NextDiff == CallDiff(DiffInputs, 1) \/ DiffStep \/ DiffReturn
SpecDiff == Init /\ [][NextDiff]_vars

\* One call of parse_files_to_codes_mapping on a declared mapping.
NextDecl == CallMapping(MapDeclInputs, 1) \/ MapSteps
SpecDecl == Init /\ [][NextDecl]_vars

\* One call of either parser.
Next ==
    \/ CallMapping(MapRawInputs, 1)
    \/ CallDiff(DiffInputs, 1)
    \/ MapSteps
    \/ DiffStep
    \/ DiffReturn
Spec == Init /\ [][Next]_vars

\* Mapping strings and diffs for a sequence of calls: blank, well formed,
\* and ending in an error with filenames, codes, a flushed pair, a path or
\* rows of a hunk body left behind.
MapSamples ==
    {[text |-> t, decl |-> <<>>] :
        t \in { <<>>,
                <<"a">>,
                <<"a", ":", "E">>,
                <<"a", ":", "E", " ", "a">>,
                <<"a", ":", "E", " ", ":">>,
                <<"a", " ", "a", ":", "E">> }}

DiffSamples ==
    {[text |-> RenderDiff(ds), decl |-> ds] :
        ds \in { <<>>,
                 <<PathLine(<<"g">>, FALSE, FALSE), HunkLine(1, Some(3), 10, Some(2), <<>>)>>,
                 <<HunkLine(1, Some(3), 10, Some(2), <<>>)>>,
                 <<PathLine(<<"g">>, FALSE, FALSE), HunkLine(4, Some(0), 3, Some(0), <<>>),
                   HunkLine(1, None, 2, None, <<" ", "x">>)>> }}

\* Up to MaxCalls calls of the two parsers, one after the other.
NextCalls ==
    \/ CallMapping(MapSamples, MaxCalls)
    \/ CallDiff(DiffSamples, MaxCalls)
    \/ MapSteps
    \/ DiffStep
    \/ DiffReturn
SpecCalls == Init /\ [][NextCalls]_vars

\* The words of a mapping string, one blank between two of them: two
\* filenames, a code and the colon.
GroupWords == {<<"a">>, <<"b">>, <<"E">>, <<":">>}

RECURSIVE JoinWords(_)
JoinWords(ws) ==
    IF ws = <<>> THEN <<>>
    ELSE IF Len(ws) = 1 THEN ws[1]
    ELSE ws[1] \o <<" ">> \o JoinWords(Tail(ws))

\* Mapping strings of several groups: every string of up to MaxWords
\* words, filenames kept in the order a, b, a, b..., and some strings
\* without blanks, with commas, and with other names.
GroupSamples ==
    { <<"a", ":", "E", " ", "a", " ", "E">>,
      <<"a", ":", "E", " ", "a", ":", "E">>,
      <<"a", ",", "b", ":", "E", ",", "F", "1", " ", "c", ":", "E", "1">>,
      <<"a", ":", "E", " ", "b", ",", "c", ":", "F", " ", "E", " ", "a", " ", "F">> }

WordStrings ==
    UNION {[1..m -> GroupWords] : m \in 0..MaxWords}

\* The filenames among the words come in turn: a first, then b, then a...
NamesInTurn(ws) ==
    LET at == {x \in 1..Len(ws) : ws[x] \in {<<"a">>, <<"b">>}}
    IN  \A x \in at :
            ws[x] = (IF Cardinality({y \in at : y < x}) % 2 = 0 THEN <<"a">> ELSE <<"b">>)

GroupInputs ==
    {[text |-> t, decl |-> <<>>] :
        t \in {JoinWords(ws) : ws \in {w \in WordStrings : NamesInTurn(w)}}
                \cup GroupSamples}

\* One call of parse_files_to_codes_mapping on a string of several groups.
NextGroups == CallMapping(GroupInputs, 1) \/ MapSteps
SpecGroups == Init /\ [][NextGroups]_vars

\* What standard input may hold: every string of up to MaxBytes bytes
\* among a, \n, \r and BadByte, and diffs, as they are and with a BadByte
\* after them.
BytesOver(n) == UNION {[1..m -> {"a", "\n", "\r", BadByte}] : m \in 0..n}

StdinInputs ==
    BytesOver(MaxBytes)
        \cup {d.text : d \in DiffSamples}
        \cup {d.text \o <<BadByte>> : d \in DiffSamples}

InitStdin == \E bytes \in StdinInputs : InitWith(bytes)

\* Up to MaxCalls calls of the three readers of standard input, one after
\* the other.
NextStdin ==
    \/ CallStdinGetValue(MaxCalls)
    \/ CallStdinGetLines(MaxCalls)
    \/ CallDiffStdin(MaxCalls)
    \/ DiffStep
    \/ DiffReturn
SpecStdin == InitStdin /\ [][NextStdin]_vars

-----------------------------------------------------------------------------
(* What a declared mapping says.                                           *)

\* [A-Z]+[0-9]*
CodeShaped(name) ==
    \E m \in 1..Len(name) :
        /\ \A x \in 1..m : name[x] \in Upper
        /\ \A x \in m + 1..Len(name) : name[x] \in Digit

\* The codes of the group of the filename at position p: the first run of
\* codes after p.
GroupCodes(d, p) ==
    LET first == SetMin({q \in p + 1..Len(d.items) : d.items[q].role = "code"})
        last  == SetMax({q \in first..Len(d.items) :
                            \A x \in first..q : d.items[x].role = "code"})
    IN  [n \in 1..last - first + 1 |-> d.items[first + n - 1].name]

\* One pair per declared filename, in the order declared.
RECURSIVE DeclaredPairsFrom(_, _)
DeclaredPairsFrom(d, p) ==
    IF p > Len(d.items) THEN <<>>
    ELSE IF d.items[p].role = "file"
    THEN << <<d.items[p].name, GroupCodes(d, p)>> >> \o DeclaredPairsFrom(d, p + 1)
    ELSE DeclaredPairsFrom(d, p + 1)

DeclaredPairs(d) == DeclaredPairsFrom(d, 1)

\* No declared filename of the form [A-Z]+[0-9]* has whitespace or a comma
\* right after it.
NoCodeLikeFilename(d) ==
    \A p \in 1..Len(d.items) :
        (d.items[p].role = "file" /\ CodeShaped(d.items[p].name))
            => Between(d, p)[1] = ":"

MappingDone == pc = "done" /\ call.fn = "mapping"

\* C1 as claimed: for every valid mapping string the call returns one pair
\* per declared filename, with the codes of its group, in declaration order.
C1_AsClaimed ==
    (MappingDone /\ call.decl # <<>>) => outcome = Returned(DeclaredPairs(call.decl))

\* C1: for every valid mapping string in which no filename of the form
\* [A-Z]+[0-9]* is directly followed by whitespace or a comma, the call
\* returns exactly one pair per declared filename, each with the codes of its
\* own group in declaration order (duplicates kept), in the order the
\* filenames were declared.
C1_DeclaredPairsReturned ==
    (MappingDone /\ call.decl # <<>> /\ NoCodeLikeFilename(call.decl))
        => outcome = Returned(DeclaredPairs(call.decl))

\* Two groups, the first of two filenames, returned with different codes.
C1_Witness ==
    /\ MappingDone
    /\ call.decl # <<>>
    /\ NoCodeLikeFilename(call.decl)
    /\ outcome = Returned(DeclaredPairs(call.decl))
    /\ Len(outcome.val) = 3
    /\ outcome.val[1][2] = outcome.val[2][2]
    /\ outcome.val[1][1] # outcome.val[2][1]
    /\ outcome.val[2][2] # outcome.val[3][2]

\* Every declared filename is returned as a filename of its group.
FilenamesAccepted(d) ==
    /\ outcome.kind = "return"
    /\ \A p \in 1..Len(d.items) :
        d.items[p].role = "file"
            => \E n \in 1..Len(outcome.val) :
                    outcome.val[n] = <<d.items[p].name, GroupCodes(d, p)>>

\* C3 as claimed: any token of characters other than whitespace, colon and
\* comma is accepted in filename position, whatever follows it, and no such
\* token causes the configuration-format error.
C3_AsClaimed ==
    (MappingDone /\ call.decl # <<>>) => FilenamesAccepted(call.decl)

\* C3: a token of characters other than whitespace, colon and comma is
\* accepted in filename position and returned as a filename of its group,
\* unless it has the form [A-Z]+[0-9]* and whitespace or a comma follows it
\* directly: a mapping with such a filename is rejected with the
\* configuration-format error or returned with other pairs than declared.
C3_FilenamesAccepted ==
    (MappingDone /\ call.decl # <<>>)
        => IF NoCodeLikeFilename(call.decl)
           THEN FilenamesAccepted(call.decl)
           ELSE \/ outcome = Raised("ExecutionError")
                \/ /\ outcome.kind = "return"
                   /\ outcome.val # DeclaredPairs(call.decl)

\* A filename of the form of a code, a colon right after it, is returned.
C3_Witness ==
    /\ MappingDone
    /\ call.decl # <<>>
    /\ \E p \in 1..Len(call.decl.items) :
        /\ call.decl.items[p].role = "file"
        /\ CodeShaped(call.decl.items[p].name)
    /\ NoCodeLikeFilename(call.decl)
    /\ FilenamesAccepted(call.decl)

-----------------------------------------------------------------------------
(* The tokenizer and the parser's errors.                                  *)

\* The tokenizer has run in the current call.
TokenizerRan ==
    call.fn = "mapping" /\ pc \in {"tokenize", "parse", "done"} /\ Strip(value) # <<>>

\* C2: the tokenizer never raises its "unreachable" error; the spans of the
\* matches taken tile the input from 0 in order, without gap or overlap,
\* each token holding the trimmed text of its span, and reach len(value)
\* when the loop ends; the list returned ends with the one eof token.
C2_TokensTileInput ==
    /\ MappingDone => outcome.kind # "AssertionError"
    /\ TokenizerRan =>
        /\ \A n \in 1..Len(spans) :
            /\ spans[n][1] = (IF n = 1 THEN 0 ELSE spans[n - 1][2])
            /\ spans[n][1] < spans[n][2]
            /\ tokens[n] = Token(tokens[n].tp,
                                 Strip(Slice(value, spans[n][1], spans[n][2])))
            /\ tokens[n].tp # "eof"
        /\ i = (IF spans = <<>> THEN 0 ELSE spans[Len(spans)][2])
        /\ i <= Len(value)
        /\ pc = "tokenize" => Len(tokens) = Len(spans)
        /\ pc \in {"parse", "done"} =>
            /\ i = Len(value)
            /\ Len(tokens) = Len(spans) + 1
            /\ tokens[Len(tokens)] = Token("eof", <<>>)

\* A colon with whitespace on both sides is one token of three characters.
C2_Witness ==
    /\ pc = "parse"
    /\ Len(tokens) = 4
    /\ \E n \in 1..Len(spans) :
        tokens[n] = Token("colon", <<":">>) /\ spans[n][2] - spans[n][1] = 3

\* The parser's for loop is at token k.
AtToken == pc = "parse" /\ k <= Len(tokens)

\* C4: while the parser looks for filenames a code or the eof token, and
\* while it looks for codes a colon, ends the call in the configuration-
\* format error, which carries no list; any other token is taken and the
\* loop goes on.
C4_UnexpectedTokenRaises ==
    [][AtToken =>
        IF \/ ~seen_colon /\ tokens[k].tp \in {"code", "eof"}
           \/ seen_colon /\ tokens[k].tp = "colon"
        THEN pc' = "done" /\ outcome' = [kind |-> "ExecutionError", val |-> <<>>]
        ELSE pc' = "parse" /\ k' = k + 1 /\ outcome' = outcome]_vars

\* The error is raised after a group was flushed into ret.
C4_Witness ==
    /\ MappingDone
    /\ outcome = [kind |-> "ExecutionError", val |-> <<>>]
    /\ ret # <<>>

\* C10: a file token met while the parser looks for codes, no code yet
\* taken, ends the call in the configuration-format error.
C10_FileBeforeAnyCodeRaises ==
    [][(AtToken /\ seen_colon /\ codes = <<>> /\ tokens[k].tp = "file")
        => (pc' = "done" /\ outcome' = [kind |-> "ExecutionError", val |-> <<>>])]_vars

-----------------------------------------------------------------------------
(* What a declared diff says.                                              *)

\* The diff parser's for loop is at a line outside a hunk body.
AtOpenLine == pc = "diff" /\ ln <= Len(call.decl) /\ ~Truthy(number_of_rows)

\* The declared count of a hunk header, 1 when it is left out.
DeclCount(c) == IF c = None THEN 1 ELSE c[1]

\* Every set of m is held, as it is or grown, by m2.
Within(m, m2) ==
    \A p \in DOMAIN m : p \in DOMAIN m2 /\ m[p] \subseteq m2[p]

\* C5: a hunk header @@ -a(,b)? +s(,n)? @@ processed outside a hunk body
\* with current_path set adds every integer of [s, s + n) to the set of
\* current_path and nothing else to any set, n being 1 when left out, and
\* rows_remaining becomes n.
C5_HunkAddsRange ==
    [][(AtOpenLine /\ call.decl[ln].k = "hunk" /\ current_path # None) =>
        LET d == call.decl[ln]
            n == DeclCount(d.n)
            p == current_path[1]
            old == IF p \in DOMAIN parsed_paths THEN parsed_paths[p] ELSE {}
        IN  /\ DOMAIN parsed_paths' = DOMAIN parsed_paths \cup {p}
            /\ parsed_paths'[p] = old \cup {x \in d.s..d.s + n : x < d.s + n}
            /\ \A q \in DOMAIN parsed_paths \ {p} : parsed_paths'[q] = parsed_paths[q]
            /\ number_of_rows' = <<n>>
            /\ pc' = "diff"]_vars

\* +++ b/foo.py then @@ -1,3 +10,2 @@ gives {"foo.py": {10, 11}}.
C5_Witness ==
    /\ pc = "done"
    /\ call.fn = "diff"
    /\ call.arg = <<"+", "+", "+", " ", "b", "/", "f", "o", "o", ".", "p", "y", "\n",
                    "@", "@", " ", "-", "1", ",", "3", " ", "+", "1", "0", ",", "2",
                    " ", "@", "@", "\n">>
    /\ outcome.kind = "return"
    /\ DOMAIN outcome.val = {<<"f", "o", "o", ".", "p", "y">>}
    /\ outcome.val[<<"f", "o", "o", ".", "p", "y">>] = {10, 11}

\* The hunk headers the pass interprets from line n on, rows left in the
\* hunk body and path being those before line n: a body line counts unless
\* it starts with "-"; outside a body a +++ line sets the path and a hunk
\* header is interpreted for the path set (none set: the pass stops).
RECURSIVE Interpreted(_, _, _, _)
Interpreted(ds, n, rows, path) ==
    IF n > Len(ds) THEN {}
    ELSE LET d == ds[n]
         IN  IF rows > 0
             THEN Interpreted(ds, n + 1,
                              IF d.k = "text" /\ d.text # <<>> /\ d.text[1] = "-"
                              THEN rows ELSE rows - 1,
                              path)
             ELSE IF d.k = "path" THEN Interpreted(ds, n + 1, rows, <<d.text>>)
             ELSE IF d.k = "hunk"
             THEN IF path = None THEN {}
                  ELSE {[line |-> n, path |-> path[1], s |-> d.s, n |-> DeclCount(d.n)]}
                          \cup Interpreted(ds, n + 1, DeclCount(d.n), path)
             ELSE Interpreted(ds, n + 1, rows, path)

\* C6: during a pass the result only grows: after every line each path's
\* set holds what it held before and no key is gone; a hunk for a path
\* already there adds to its set; and the mapping returned gives each path
\* the union of the new-file ranges of the hunk headers interpreted for it.
C6_ResultAccumulates ==
    /\ [][pc = "diff" => Within(parsed_paths, parsed_paths')]_vars
    /\ [](pc = "done" /\ call.fn = "diff" /\ outcome.kind = "return" =>
            LET hs == Interpreted(call.decl, 1, 0, None)
            IN  /\ DOMAIN outcome.val = {h.path : h \in hs}
                /\ \A p \in DOMAIN outcome.val :
                    outcome.val[p] = UNION {{x \in h.s..h.s + h.n : x < h.s + h.n} :
                                                h \in {g \in hs : g.path = p}})

\* Two hunks of one path, the second added to the first.
C6_Witness ==
    /\ pc = "done"
    /\ call.fn = "diff"
    /\ outcome.kind = "return"
    /\ DOMAIN outcome.val = {<<"g">>}
    /\ outcome.val[<<"g">>] = {2, 10, 11}

\* C7: a +++ line processed outside a hunk body sets current_path to the
\* text after the 4th character, cut at the first tab, less one leading b/,
\* and changes neither the result nor rows_remaining; no other line of the
\* pass changes current_path, and a hunk header interpreted afterwards adds
\* to the set of that path only.
C7_PathLineSetsCurrentPath ==
    [][pc = "diff" /\ ln <= Len(call.decl) =>
        /\ (~Truthy(number_of_rows) /\ call.decl[ln].k = "path") =>
            /\ current_path' = <<call.decl[ln].text>>
            /\ parsed_paths' = parsed_paths
            /\ number_of_rows' = number_of_rows
        /\ (Truthy(number_of_rows) \/ call.decl[ln].k # "path") =>
            /\ current_path' = current_path
            /\ \A p \in DOMAIN parsed_paths' :
                (p \notin DOMAIN parsed_paths \/ parsed_paths'[p] # parsed_paths[p])
                    => current_path = <<p>>]_vars

\* Two +++ lines, then a hunk: only the second path is in the result.
C7_Witness ==
    /\ pc = "done"
    /\ call.fn = "diff"
    /\ Len(call.decl) = 3
    /\ call.decl[1].k = "path" /\ call.decl[1].text = <<"g">>
    /\ call.decl[2].k = "path" /\ call.decl[2].text = <<"b", "/", "g">>
    /\ call.decl[2].git /\ call.decl[2].tab
    /\ call.decl[3].k = "hunk"
    /\ outcome.kind = "return"
    /\ DOMAIN outcome.val = {<<"b", "/", "g">>}

-----------------------------------------------------------------------------
(* Empty inputs; calls one after the other.                                *)

\* C8: parse_files_to_codes_mapping of an empty or whitespace-only string
\* returns the empty list, and parse_unified_diff of a text without a hunk
\* header (the empty text too) returns the empty mapping.
C8_EmptyInputsGiveEmptyResults ==
    /\ (MappingDone /\ \A x \in 1..Len(call.arg) : call.arg[x] \in Whitespace)
        => outcome = [kind |-> "return", val |-> <<>>]
    /\ (pc = "done" /\ call.fn = "diff"
            /\ \A n \in 1..Len(call.decl) : call.decl[n].k # "hunk")
        => outcome = [kind |-> "return", val |-> <<>>]

\* A string of two blanks gave the empty list.
C8_Witness ==
    /\ MappingDone
    /\ call.arg = <<" ", " ">>
    /\ outcome = [kind |-> "return", val |-> <<>>]

\* C9: whatever calls came before, and however they ended, a call gives the
\* result or the error that any other call of the same function with the
\* same input gave, the first one too.
C9_CallsAreStateless ==
    \A a \in 1..Len(log) : \A b \in 1..Len(log) :
        (log[a].fn = log[b].fn /\ log[a].arg = log[b].arg) => log[a].out = log[b].out

\* "a:E", then "a:E :" (an error, a filename and a code left in the buffers),
\* then "a:E" again with the result of the first call.
C9_Witness ==
    /\ Len(log) = 3
    /\ log[1].fn = "mapping" /\ log[1].arg = <<"a", ":", "E">>
    /\ log[1].out = [kind |-> "return", val |-> << <<<<"a">>, <<<<"E">>>> >> >>]
    /\ log[2].fn = "mapping" /\ log[2].arg = <<"a", ":", "E", " ", ":">>
    /\ log[2].out.kind = "ExecutionError"
    /\ log[3] = log[1]

-----------------------------------------------------------------------------
(* The groups of the mapping                                               *)

\* C11: a file token met after a colon and at least one code closes the
\* group: one pair per filename of the group, each with the group's codes,
\* is appended to the result, the buffers are emptied, the token is the
\* only filename of the new group, and the parser looks for filenames
\* again; and no code is ever held while the parser looks for filenames, so
\* a colon comes before any further code is accepted: a code right after
\* the new filename raises, "a:E a E" is rejected and "a:E a:E" gives a
\* pair for each group.
C11_FileAfterCodesStartsGroup ==
    /\ [][(AtToken /\ seen_colon /\ codes # <<>> /\ tokens[k].tp = "file")
            => /\ pc' = "parse"
               /\ k' = k + 1
               /\ ret' = ret \o [n \in 1..Len(filenames) |-> <<filenames[n], codes>>]
               /\ filenames' = <<tokens[k].src>>
               /\ codes' = <<>>
               /\ ~seen_colon'
               /\ outcome' = outcome]_vars
    /\ [](pc = "parse" /\ ~seen_colon => codes = <<>>)
    /\ [][(AtToken /\ ~seen_colon /\ tokens[k].tp = "code")
            => (pc' = "done" /\ outcome'.kind = "ExecutionError" /\ ret' = ret)]_vars
    /\ []((MappingDone /\ call.arg = <<"a", ":", "E", " ", "a", " ", "E">>)
            => outcome.kind = "ExecutionError")
    /\ []((MappingDone /\ call.arg = <<"a", ":", "E", " ", "a", ":", "E">>)
            => outcome = [kind |-> "return",
                          val |-> << <<<<"a">>, <<<<"E">>>> >>,
                                     <<<<"a">>, <<<<"E">>>> >> >>])

\* "a:E b,c:F E a F": the second a closed the group of b and c, a pair for
\* each with the codes F and E after the pair of the first group, and the
\* F after it, no colon seen since, ended the call with the error.
C11_Witness ==
    /\ MappingDone
    /\ call.arg = <<"a", ":", "E", " ", "b", ",", "c", ":", "F", " ", "E", " ",
                    "a", " ", "F">>
    /\ outcome.kind = "ExecutionError"
    /\ tokens[k] = Token("code", <<"F">>)
    /\ ret = << <<<<"a">>, <<<<"E">>>> >>,
                <<<<"b">>, << <<"F">>, <<"E">> >> >>,
                <<<<"c">>, << <<"F">>, <<"E">> >> >> >>
    /\ filenames = <<<<"a">>>>
    /\ codes = <<>>
    /\ ~seen_colon

-----------------------------------------------------------------------------
(* The body of a hunk                                                      *)

\* The diff parser's for loop is at a line inside a hunk body.
AtBodyLine == pc = "diff" /\ ln <= Len(call.decl) /\ Truthy(number_of_rows)

\* The declared line is a removal: text that starts with "-".
Removal(d) == d.k = "text" /\ d.text # <<>> /\ d.text[1] = "-"

\* C12: while rows_remaining is above zero a line is skipped, be it a +++
\* line or a hunk header: current_path and the result stay as they are,
\* rows_remaining goes down by exactly one when the line is empty or does
\* not start with "-" and stays when it does; rows_remaining is never
\* negative, and a line is interpreted again only at zero.
C12_BodyLinesAreSkipped ==
    /\ [][AtBodyLine =>
            /\ pc' = "diff"
            /\ ln' = ln + 1
            /\ current_path' = current_path
            /\ parsed_paths' = parsed_paths
            /\ number_of_rows' =
                    IF Removal(call.decl[ln]) THEN number_of_rows
                    ELSE Some(number_of_rows[1] - 1)]_vars
    /\ [][(pc = "diff" /\ (current_path' # current_path \/ parsed_paths' # parsed_paths))
            => number_of_rows \in {None, Some(0)}]_vars
    /\ [](number_of_rows # None => number_of_rows[1] >= 0)

\* A +++ line of another path and a hunk header were the two rows of the
\* hunk @@ -1,3 +10,2 @@: the path and the result are those of the lines
\* before them.
C12_Witness ==
    /\ pc = "done"
    /\ call.fn = "diff"
    /\ Len(call.decl) = 4
    /\ call.decl[1].k = "path"
    /\ call.decl[2] = HunkLine(1, Some(3), 10, Some(2), <<>>)
    /\ call.decl[3].k = "path"
    /\ PathOf(RenderLine(call.decl[3])) # PathOf(RenderLine(call.decl[1]))
    /\ call.decl[4].k = "hunk"
    /\ current_path = Some(PathOf(RenderLine(call.decl[1])))
    /\ number_of_rows = Some(0)
    /\ outcome.kind = "return"
    /\ DOMAIN outcome.val = {current_path[1]}
    /\ outcome.val[current_path[1]] = {10, 11}

-----------------------------------------------------------------------------
(* A hunk header with no path                                              *)

\* C13: a hunk header interpreted while no +++ line has set current_path
\* ends the call with an AssertionError: the call gives no mapping, and
\* the result holds no line number the header stands for, under any key.
C13_HunkWithoutPathAsserts ==
    /\ [][(AtOpenLine /\ call.decl[ln].k = "hunk" /\ current_path = None)
            => /\ pc' = "done"
               /\ outcome' = [kind |-> "AssertionError", val |-> <<>>]
               /\ parsed_paths' = parsed_paths
               /\ current_path' = None]_vars
    /\ []((call.fn = "diff" /\ pc \in {"diff", "done"} /\ current_path = None)
            => parsed_paths = <<>>)

\* The second line, a hunk header after a line of text, ended the call.
C13_Witness ==
    /\ pc = "done"
    /\ call.fn = "diff"
    /\ Len(call.decl) >= 2
    /\ call.decl[1].k = "text"
    /\ call.decl[2].k = "hunk"
    /\ ln = 2
    /\ current_path = None
    /\ parsed_paths = <<>>
    /\ outcome = [kind |-> "AssertionError", val |-> <<>>]

-----------------------------------------------------------------------------
(* The kind of a token                                                     *)

\* The characters that end a name: whitespace, the colon and the comma.
Separators == Whitespace \cup {":", ","}

\* The offset of the first character at or after a that is no whitespace,
\* Len(value) when there is none.
BlankEnd(a) ==
    SetMin({x \in a..Len(value) : x = Len(value) \/ value[x + 1] \notin Whitespace})

\* C14: the kind of every token is that of the first pattern, in the order
\* code, file, colon, comma, whitespace, that matches at the cursor.  At a
\* name character the token spans the longest run of name characters; it
\* is a code exactly when that run is capital letters and then digits, if
\* any, up to the end of the input, a whitespace or a comma, and a file
\* otherwise.  At a separator it is a colon or a comma when that is the
\* first character after the whitespace, and whitespace otherwise.
C14_FirstPatternDecidesKind ==
    TokenizerRan =>
        \A n \in 1..Len(spans) :
            LET a == spans[n][1]
                b == spans[n][2]
                q == BlankEnd(a)
            IN  IF value[a + 1] \notin Separators
                THEN /\ \A x \in a + 1..b : value[x] \notin Separators
                     /\ b = Len(value) \/ value[b + 1] \in Separators
                     /\ tokens[n].tp =
                            IF /\ CodeShaped(Slice(value, a, b))
                               /\ b = Len(value) \/ value[b + 1] # ":"
                            THEN "code" ELSE "file"
                ELSE IF q < Len(value) /\ value[q + 1] \in {":", ","}
                THEN /\ tokens[n].tp = (IF value[q + 1] = ":" THEN "colon" ELSE "comma")
                     /\ b = BlankEnd(q + 1)
                ELSE /\ tokens[n].tp = "ws"
                     /\ b = q

\* "E:E1": E before the colon is a file, E1 at the end is a code.
C14_Witness ==
    /\ pc = "parse"
    /\ value = <<"E", ":", "E", "1">>
    /\ tokens = <<Token("file", <<"E">>), Token("colon", <<":">>),
                  Token("code", <<"E", "1">>), Token("eof", <<>>)>>

-----------------------------------------------------------------------------
(* Separators, the cursor and the flush                                    *)

\* C16: no two name tokens (file or code) are next to each other in the
\* token list; so seen_sep is true whenever the parser is at a file or a
\* code token, and no call is rejected at a name token for want of a
\* separator: the token that raises is a code while looking for
\* filenames, or no name token at all.
C16_NamesAreSeparated ==
    /\ [](TokenizerRan =>
            \A n \in 1..Len(tokens) - 1 :
                tokens[n].tp \in {"file", "code"}
                    => tokens[n + 1].tp \in {"colon", "comma", "ws", "eof"})
    /\ []((AtToken /\ tokens[k].tp \in {"file", "code"}) => seen_sep)
    /\ [][(AtToken /\ pc' = "done" /\ outcome'.kind = "ExecutionError")
            => \/ tokens[k].tp \notin {"file", "code"}
               \/ seen_sep /\ ~seen_colon /\ tokens[k].tp = "code"]_vars

\* In "a:E E" the parser is at the second code, after the whitespace.
C16_Witness ==
    /\ AtToken
    /\ value = <<"a", ":", "E", " ", "E">>
    /\ k = 5
    /\ tokens[4].tp = "ws"
    /\ tokens[5] = Token("code", <<"E">>)
    /\ codes = <<<<"E">>>>
    /\ seen_sep

\* C17: an iteration of the tokenizer's loop moves the cursor forward by
\* at least one character, never past the end, and adds one token; so for
\* a value of n characters at most n tokens are taken before the eof
\* token, which the loop, once the cursor is at the end, goes on to add.
C17_CursorAdvances ==
    /\ [][(pc = "tokenize" /\ i < Len(value))
            => /\ i' > i
               /\ i' <= Len(value)
               /\ Len(tokens') = Len(tokens) + 1
               /\ pc' = "tokenize"
               /\ outcome' = outcome]_vars
    /\ [](TokenizerRan => Len(spans) <= i /\ i <= Len(value)
                            /\ Len(tokens) <= Len(value) + 1)
    /\ []((pc = "tokenize" /\ i >= Len(value)) => ENABLED TokenizeEnd)

\* "a,a,a": five characters, five tokens and the eof token.
C17_Witness ==
    /\ pc = "parse"
    /\ value = <<"a", ",", "a", ",", "a">>
    /\ i = 5
    /\ Len(tokens) = 6
    /\ tokens[6] = Token("eof", <<>>)

\* C18: the result grows only at the eof token or at a file token met
\* while collecting codes, and only when filenames and codes are both held:
\* by one pair per filename.  So "a:" and ": E" end without an error and
\* with no pair, while "a", which ends before any colon, is rejected.
C18_OnlyFlushAppends ==
    /\ [][(pc = "parse" /\ ret' # ret)
            => /\ seen_colon
               /\ tokens[k].tp \in {"eof", "file"}
               /\ filenames # <<>>
               /\ codes # <<>>
               /\ ret' = ret \o [n \in 1..Len(filenames) |-> <<filenames[n], codes>>]]_vars
    /\ []((MappingDone /\ call.arg \in {<<"a", ":">>, <<":", " ", "E">>})
            => outcome = [kind |-> "return", val |-> <<>>])
    /\ []((MappingDone /\ call.arg = <<"a">>) => outcome.kind = "ExecutionError")

\* ": E" gave the empty list: the code was flushed with no filename.
C18_Witness ==
    /\ MappingDone
    /\ call.arg = <<":", " ", "E">>
    /\ k = Len(tokens) + 1
    /\ tokens[2] = Token("code", <<"E">>)
    /\ outcome = [kind |-> "return", val |-> <<>>]

-----------------------------------------------------------------------------
(* The cache of standard input                                             *)

\* The finished call was given a value by stdin_get_value.
GotValue(e) == e.out.kind # "UnicodeDecodeError"

\* The lines of stdin_get_lines, put together again.
RECURSIVE Joined(_)
Joined(lines) == IF lines = <<>> THEN <<>> ELSE lines[1] \o Joined(Tail(lines))

\* The value stdin_get_value gave the finished call.
ValueGiven(e) ==
    CASE e.fn = "stdin_get_value" -> e.out.val
      [] e.fn = "stdin_get_lines" -> Joined(e.out.val)
      [] e.fn = "stdin_diff"      -> e.arg

\* C15: over any sequence of calls of stdin_get_value, stdin_get_lines and
\* parse_unified_diff() the stream is read at most once, and every call
\* after the first is given the value the first call was given.
C15_StdinReadOnce ==
    /\ reads <= 1
    /\ \A b \in 2..Len(log) :
        /\ GotValue(log[1])
        /\ GotValue(log[b])
        /\ ValueGiven(log[b]) = ValueGiven(log[1])

\* What does hold of the cache: once a call has been given a value the
\* stream is not read again and every later call is given that value; a
\* call that raised left nothing in the cache, and the stream was read
\* once for each such call and once for the value held.
StdinStableOnceReturned ==
    /\ [][cache # None => (cache' = cache /\ reads' = reads /\ stdin' = stdin)]_vars
    /\ [](\A a \in 1..Len(log) : \A b \in a..Len(log) :
            GotValue(log[a]) => (GotValue(log[b]) /\ ValueGiven(log[b]) = cache[1]))
    /\ [](reads = Cardinality({a \in 1..Len(log) : ~GotValue(log[a])})
                    + (IF cache # None THEN 1 ELSE 0))

====
